---------------------------- MODULE Spec2Model ----------------------------
(***************************************************************************)
(* A model of @percy/core: the per-target protocol session (Page, page.js) *)
(* and the orchestrator (Percy, percy.js) with its two task queues.        *)
(*                                                                         *)
(* SpecPage  explores one Page: send(), _handleMessage(), _handleClose(),  *)
(*           the crash event and close().                                  *)
(* SpecPercy explores one Percy instance: start(), stop(force), snapshot(),*)
(*           the capture and upload task bodies and the queue dispatcher.  *)
(* SpecIdle  is SpecPercy with one caller of idle().                       *)
(* SpecGoto  explores one call of goto() on a Page: navigate(), the two    *)
(*           event handlers, waitFor(), the close and the crash.           *)
(* SpecContext explores the execution-context events of a Page and eval(). *)
(***************************************************************************)
EXTENDS Integers, Sequences, FiniteSets, TLC

\* ------------------------------------------------------------------ bounds
\* number of send() calls issued on the session
MaxCalls == 3
\* number of execution contexts the browser creates
MaxContexts == 3
\* number of eval() calls on the session
MaxEvals == 1

\* snapshot names the callers of snapshot() use
Names == {"a", "b"}
\* number of snapshot() calls that pass the running check
MaxSnapshotCalls == 3
\* largest concurrency ceiling a queue is given
MaxConcurrency == 2

\* ---------------------------------------------------------------- constants
\* readyState: null (unstarted), 0 (starting), 1 (running), 2 (stopping),
\* 3 (stopped); null is written -1
Unstarted == -1
Starting == 0
Running == 1
Stopping == 2
Stopped == 3
\* closedReason = null (page.js:18)
NoReason == "null"
\* 'Page closed.' (page.js:317) and 'Page crashed!' (page.js:358)
PageClosed == "Page closed."
PageCrashed == "Page crashed!"
\* the reason carried by an error response of the browser (page.js:304)
RemoteError == "remote error"
\* the result carried by a successful response (page.js:308)
NoError == "result"

\* frameId = null (page.js:16) and contextId = null (page.js:17)
NoFrame == "null"
NoContext == 0
\* the frames of a target: the frame of the session and another one
Frames == {"main", "child"}

\* protocol methods used by the callers of send()
Methods == {"Page.enable", "Page.navigate"}

VARIABLES
  \* ---- Page (page.js)
  closedReason,   \* this.closedReason
  browser,        \* this.browser: TRUE while the owning browser is referenced
  callbacks,      \* this.#callbacks: correlation id -> [method, call]
  lastid,         \* the transport's last correlation id (browser.send)
  transport,      \* the ids of the session messages put on the transport
  calls,          \* the send() calls issued so far, in call order
  closeRequests,  \* number of Target.closeTarget commands sent by close()
  crashed,        \* a crash event has been handled (history)
  pageOp,         \* the last Page operation that ran
  \* ---- Page.goto (page.js)
  gotoPc,         \* the promise returned by goto()
  nav,            \* navigate(): where it stands and the send() call it awaits
  waitPc,         \* the promise of waitFor()
  handlers,       \* the two watchers of goto(): registered, finished
  cookies,        \* this.browser.cookies.length > 0
  \* ---- Page: execution contexts and eval (page.js)
  frameId,        \* this.frameId
  contextId,      \* this.contextId
  alive,          \* the contexts created and not yet destroyed or cleared, oldest first
  lastContext,    \* the id the browser gave to the context it created last
  evalSent,       \* the executionContextId values eval() has sent
  \* ---- Percy (percy.js)
  readyState,     \* this.readyState
  deferUploads,   \* this.deferUploads
  skipUploads,    \* this.skipUploads
  build,          \* this.build: id 0 while undefined
  uploads,        \* this.#uploads
  snapshots,      \* this.#snapshots
  body,           \* where the body of each task stands
  buildTask,      \* the promise of the 'build/create' task
  startPc,        \* where the start() call that passed its guard stands
  stopPc,         \* where the stop() call that passed its guards stands
  server,         \* the control-plane server
  discovery,      \* the discovery browser (this.browser of Percy)
  counts,         \* how often the remote service and the browser were used
  idlePc,         \* where the idle() call stands
  percyOp         \* the last Percy operation that ran

pageVars == <<closedReason, browser, callbacks, lastid, transport, calls,
              closeRequests, crashed, pageOp>>

percyVars == <<readyState, deferUploads, skipUploads, build, uploads, snapshots,
               body, buildTask, startPc, stopPc, server, discovery, counts, idlePc,
               percyOp>>

gotoVars == <<gotoPc, nav, waitPc, handlers, cookies>>

ctxVars == <<frameId, contextId, alive, lastContext, evalSent>>

vars == <<pageVars, percyVars, gotoVars, ctxVars>>

\* ------------------------------------------------------------------- Page
\* the message of a protocol error: `Protocol error (${method}): ${reason}`
ProtocolError(method, reason) == [kind |-> "reject", method |-> method, reason |-> reason]

\* callback.resolve(data.result)
Resolution(method) == [kind |-> "resolve", method |-> method, reason |-> NoError]

PageInit ==
  /\ closedReason = NoReason
  /\ browser = TRUE
  /\ callbacks = <<>>
  /\ lastid = 0
  /\ transport = {}
  /\ calls = <<>>
  /\ closeRequests = 0
  /\ crashed = FALSE
  /\ pageOp = [op |-> "new", arg |-> 0]

\* browser.send(rawMessage): allocates the next correlation id and writes the
\* message to the transport; the id is the value of the returned promise
BrowserSend ==
  /\ lastid' = lastid + 1
  /\ transport' = transport \cup {lastid + 1}

\* a send() that lost its closed check
Send_NoClosedCheck(method) ==
  /\ Len(calls) < MaxCalls
  /\ BrowserSend
  /\ calls' = Append(calls, [state |-> "suspended", method |-> method,
                             id |-> lastid + 1, settles |-> <<>>])
  /\ pageOp' = [op |-> "send", arg |-> Len(calls) + 1]
  /\ UNCHANGED <<closedReason, browser, callbacks, closeRequests, crashed, percyVars>>

\* send(method), first part: the closed check and, when open, the raw message
\* handed to the browser.  The call then waits for `await browser.send(..)`.
Send(method) ==
  /\ Len(calls) < MaxCalls
  /\ IF closedReason # NoReason
       THEN /\ calls' = Append(calls, [state |-> "settled", method |-> method, id |-> 0,
                                       settles |-> <<ProtocolError(method, closedReason)>>])
            /\ UNCHANGED <<lastid, transport>>
       ELSE /\ BrowserSend
            /\ calls' = Append(calls, [state |-> "suspended", method |-> method,
                                       id |-> lastid + 1, settles |-> <<>>])
  /\ pageOp' = [op |-> "send", arg |-> Len(calls) + 1]
  /\ UNCHANGED <<closedReason, browser, callbacks, closeRequests, crashed, percyVars>>

\* send(method), second part: after the await, the pending call is registered
SendRegister(c) ==
  /\ c \in DOMAIN calls
  /\ calls[c].state = "suspended"
  /\ callbacks' = [i \in DOMAIN callbacks \cup {calls[c].id} |->
                     IF i = calls[c].id THEN [method |-> calls[c].method, call |-> c]
                                        ELSE callbacks[i]]
  /\ calls' = [calls EXCEPT ![c].state = "pending"]
  /\ pageOp' = [op |-> "register", arg |-> c]
  /\ UNCHANGED <<closedReason, browser, lastid, transport, closeRequests, crashed, percyVars>>

\* the settlement of the call behind a callback
Settle(cs, cb, outcome) ==
  [cs EXCEPT ![cb.call].state = "settled",
             ![cb.call].settles = Append(@, outcome)]

\* Messages of the browser are delivered by the transport's I/O callback.  The
\* await in send() lasts only until the already written message's id is handed
\* back, so no I/O callback runs while a send() is suspended there; code that
\* runs from promise continuations (another send(), the browser being closed
\* by its owner) can.
NoSendSuspended == \A c \in DOMAIN calls : calls[c].state # "suspended"

\* _handleMessage(data) for a message carrying an id: a response
HandleMessage(id, error) ==
  /\ id \in transport
  /\ NoSendSuspended
  /\ IF id \in DOMAIN callbacks
       THEN /\ callbacks' = [i \in DOMAIN callbacks \ {id} |-> callbacks[i]]
            /\ calls' = Settle(calls, callbacks[id],
                               IF error THEN ProtocolError(callbacks[id].method, RemoteError)
                                        ELSE Resolution(callbacks[id].method))
            /\ pageOp' = [op |-> "response", arg |-> id]
       ELSE \* emitted as an event nobody listens to
            /\ pageOp' = [op |-> "emit", arg |-> id]
            /\ UNCHANGED <<callbacks, calls>>
  /\ UNCHANGED <<closedReason, browser, lastid, transport, closeRequests, crashed, percyVars>>

\* the calls after every callback of the map cbs has been rejected with reason
RECURSIVE RejectAll(_, _, _)
RejectAll(cs, cbs, reason) ==
  IF DOMAIN cbs = {} THEN cs
  ELSE LET i == CHOOSE j \in DOMAIN cbs : TRUE
       IN RejectAll(Settle(cs, cbs[i], ProtocolError(cbs[i].method, reason)),
                    [j \in DOMAIN cbs \ {i} |-> cbs[j]], reason)

\* a close that overwrites the reason already set (= instead of ||=)
CloseReason_Overwrite == PageClosed

\* this.closedReason ||= 'Page closed.'
CloseReason == IF closedReason # NoReason THEN closedReason ELSE PageClosed

\* _handleClose()
HandleClose ==
  /\ closedReason' = CloseReason
  /\ calls' = RejectAll(calls, callbacks, closedReason')
  /\ callbacks' = <<>>
  /\ browser' = FALSE
  /\ pageOp' = [op |-> "close", arg |-> Cardinality(DOMAIN callbacks)]
  /\ UNCHANGED <<lastid, transport, closeRequests, crashed, percyVars>>

\* close(): asks the browser to close the target unless already closed
ClosePage ==
  closeRequests' = IF browser THEN closeRequests + 1 ELSE closeRequests

\* _handleTargetCrashed(), run by the emit of _handleMessage for the event
\* Inspector.targetCrashed; a target crashes once
HandleTargetCrashed ==
  /\ ~crashed
  /\ NoSendSuspended
  /\ closedReason' = PageCrashed
  /\ ClosePage
  /\ crashed' = TRUE
  /\ pageOp' = [op |-> "crash", arg |-> 0]
  /\ UNCHANGED <<browser, callbacks, lastid, transport, calls, percyVars>>

NextPage ==
  \/ \E m \in Methods : Send(m) /\ UNCHANGED <<gotoVars, ctxVars>>
  \/ \E c \in 1..MaxCalls : SendRegister(c) /\ UNCHANGED <<gotoVars, ctxVars>>
  \/ \E i \in 1..MaxCalls, e \in BOOLEAN : HandleMessage(i, e) /\ UNCHANGED <<gotoVars, ctxVars>>
  \/ HandleClose /\ UNCHANGED <<gotoVars, ctxVars>>
  \/ HandleTargetCrashed /\ UNCHANGED <<gotoVars, ctxVars>>

\* ------------------------------------------------------------- Page.goto
\* the events goto() watches
Events == {"Page.frameNavigated", "Page.lifecycleEvent"}

\* no goto() has been called
GotoIdle ==
  /\ gotoPc = "none"
  /\ nav = [pc |-> "none", call |-> 0]
  /\ waitPc = "none"
  /\ handlers = [e \in Events |-> [on |-> FALSE, finished |-> FALSE]]
  /\ cookies = FALSE

\* handler.off() for both handlers
HandlersOff == [e \in Events |-> [handlers[e] EXCEPT !.on = FALSE]]

\* Promise.all([navigate(), waitFor(..)]) as awaited by goto(): rejected with
\* the first rejection, resolved when both have resolved
GotoAfter(n, w) ==
  IF gotoPc # "running" THEN gotoPc
  ELSE IF n = "rejected" \/ w = "rejected" THEN "rejected"
  ELSE IF n = "resolved" /\ w = "resolved" THEN "resolved"
  ELSE "running"

\* the catch of goto(): a rejection removes both handlers
HandlersAfter(g) ==
  IF gotoPc = "running" /\ g = "rejected" THEN HandlersOff ELSE handlers


\* goto(url): the two handlers are registered, navigate() runs up to its first
\* await and waitFor() starts to poll.  navigate() reads this.browser.cookies,
\* which throws on a session that has lost its browser.
Goto ==
  /\ gotoPc = "none"
  /\ waitPc' = "polling"
  /\ IF ~browser
       THEN /\ nav' = [pc |-> "rejected", call |-> 0]
            /\ gotoPc' = "rejected"
            /\ handlers' = [e \in Events |-> [on |-> FALSE, finished |-> FALSE]]
            /\ pageOp' = [op |-> "goto", arg |-> 0]
            /\ UNCHANGED <<closedReason, browser, callbacks, lastid, transport, calls,
                           closeRequests, crashed, percyVars>>
       ELSE /\ Send(IF cookies THEN "Network.setCookies" ELSE "Page.navigate")
            /\ nav' = [pc |-> IF cookies THEN "cookies" ELSE "navigate",
                       call |-> Len(calls) + 1]
            /\ gotoPc' = "running"
            /\ handlers' = [e \in Events |-> [on |-> TRUE, finished |-> FALSE]]
  /\ UNCHANGED <<cookies, ctxVars>>

\* the send() call navigate() awaits has settled with this outcome
NavigateAwaited(pc, kind) ==
  /\ nav.pc = pc
  /\ calls[nav.call].state = "settled"
  /\ calls[nav.call].settles[1].kind = kind

\* navigate(): the send() it awaits was rejected, and so is navigate()
NavigateFailed ==
  /\ \E pc \in {"cookies", "navigate"} : NavigateAwaited(pc, "reject")
  /\ nav' = [nav EXCEPT !.pc = "rejected"]
  /\ gotoPc' = GotoAfter("rejected", waitPc)
  /\ handlers' = HandlersAfter(gotoPc')
  /\ pageOp' = [op |-> "navigate", arg |-> nav.call]
  /\ UNCHANGED <<closedReason, browser, callbacks, lastid, transport, calls,
                 closeRequests, crashed, percyVars, waitPc, cookies, ctxVars>>

\* navigate(): the cookies are set, Page.navigate is sent
NavigateCookiesSet ==
  /\ NavigateAwaited("cookies", "resolve")
  /\ Send("Page.navigate")
  /\ nav' = [pc |-> "navigate", call |-> Len(calls) + 1]
  /\ UNCHANGED <<gotoPc, waitPc, handlers, cookies, ctxVars>>

\* navigate(): Page.navigate has answered, with or without an errorText
NavigateResponded(errorText) ==
  /\ NavigateAwaited("navigate", "resolve")
  /\ nav' = [nav EXCEPT !.pc = IF errorText THEN "rejected" ELSE "resolved"]
  /\ gotoPc' = GotoAfter(nav'.pc, waitPc)
  /\ handlers' = HandlersAfter(gotoPc')
  /\ pageOp' = [op |-> "navigate", arg |-> nav.call]
  /\ UNCHANGED <<closedReason, browser, callbacks, lastid, transport, calls,
                 closeRequests, crashed, percyVars, waitPc, cookies, ctxVars>>

\* _handleMessage(data) for a watched event: emitted to the handler that is
\* still registered; on a match the handler is finished and removes itself
HandleEvent(name, match) ==
  /\ browser
  /\ NoSendSuspended
  /\ gotoPc # "none"
  /\ handlers' = IF handlers[name].on /\ match
                   THEN [handlers EXCEPT ![name] = [on |-> FALSE, finished |-> TRUE]]
                   ELSE handlers
  /\ pageOp' = [op |-> name, arg |-> IF match THEN 1 ELSE 0]
  /\ UNCHANGED <<closedReason, browser, callbacks, lastid, transport, calls,
                 closeRequests, crashed, percyVars, gotoPc, nav, waitPc, cookies, ctxVars>>

\* waitFor(): a poll of the condition of goto() that ends the wait: it throws
\* closedReason when that is set and is true once both handlers are finished
Poll ==
  /\ waitPc = "polling"
  /\ NoSendSuspended
  /\ closedReason # NoReason \/ \A e \in Events : handlers[e].finished
  /\ waitPc' = IF closedReason # NoReason THEN "rejected" ELSE "resolved"
  /\ gotoPc' = GotoAfter(nav.pc, waitPc')
  /\ handlers' = HandlersAfter(gotoPc')
  /\ pageOp' = [op |-> "poll", arg |-> 0]
  /\ UNCHANGED <<closedReason, browser, callbacks, lastid, transport, calls,
                 closeRequests, crashed, percyVars, nav, cookies, ctxVars>>

\* waitFor(): PAGE_TIMEOUT has elapsed before the condition held
Timeout ==
  /\ waitPc = "polling"
  /\ NoSendSuspended
  /\ waitPc' = "rejected"
  /\ gotoPc' = GotoAfter(nav.pc, "rejected")
  /\ handlers' = HandlersAfter(gotoPc')
  /\ pageOp' = [op |-> "timeout", arg |-> 0]
  /\ UNCHANGED <<closedReason, browser, callbacks, lastid, transport, calls,
                 closeRequests, crashed, percyVars, nav, cookies, ctxVars>>

\* one Page on which goto() is called once
NextGoto ==
  \/ Goto
  \/ NavigateFailed
  \/ NavigateCookiesSet
  \/ \E errorText \in BOOLEAN : NavigateResponded(errorText)
  \/ \E name \in Events, match \in BOOLEAN : HandleEvent(name, match)
  \/ Poll
  \/ Timeout
  \/ \E c \in 1..MaxCalls : SendRegister(c) /\ UNCHANGED <<gotoVars, ctxVars>>
  \/ \E i \in 1..MaxCalls, e \in BOOLEAN : HandleMessage(i, e) /\ UNCHANGED <<gotoVars, ctxVars>>
  \/ HandleClose /\ UNCHANGED <<gotoVars, ctxVars>>
  \/ HandleTargetCrashed /\ UNCHANGED <<gotoVars, ctxVars>>

\* the goto() call has settled
GotoSettled == gotoPc \in {"resolved", "rejected"}

\* goto() can no longer settle: the session is closed, waitFor() has resolved
\* and navigate() awaits a call that the close did not reject
GotoStuck ==
  /\ gotoPc = "running"
  /\ waitPc = "resolved"
  /\ nav.pc \in {"cookies", "navigate"}
  /\ calls[nav.call].state = "pending"
  /\ ~browser

\* C14: goto() always settles, and once it has settled, by success or by any
\* failure, neither of its two handlers is registered on the session.
C14_GotoSettlesWithoutWatchers ==
  /\ ~GotoStuck
  /\ GotoSettled => \A e \in Events : ~handlers[e].on

\* once goto() has settled no handler is registered (the part of C14 that
\* does not depend on the settlement of send())
GotoLeavesNoWatcher ==
  GotoSettled => \A e \in Events : ~handlers[e].on

\* ------------------------------------------- Page: execution contexts, eval
\* no context has been created, no eval() has run
CtxIdle ==
  /\ frameId = NoFrame
  /\ contextId = NoContext
  /\ alive = <<>>
  /\ lastContext = 0
  /\ evalSent = {}

\* _handleExecutionContextCreated(event): the browser has created a context of
\* the frame
HandleExecutionContextCreated(frame) ==
  /\ browser
  /\ NoSendSuspended
  /\ lastContext < MaxContexts
  /\ lastContext' = lastContext + 1
  /\ alive' = Append(alive, [id |-> lastContext + 1, frame |-> frame])
  /\ contextId' = IF frameId = frame THEN lastContext + 1 ELSE contextId
  /\ pageOp' = [op |-> "contextCreated", arg |-> lastContext + 1]
  /\ UNCHANGED <<closedReason, browser, callbacks, lastid, transport, calls,
                 closeRequests, crashed, percyVars, gotoVars, frameId, evalSent>>

\* a destroyed-context handler that clears contextId whatever the id
HandleExecutionContextDestroyed_Any(id) ==
  /\ browser
  /\ NoSendSuspended
  /\ id <= lastContext
  /\ alive' = SelectSeq(alive, LAMBDA c : c.id # id)
  /\ contextId' = NoContext
  /\ pageOp' = [op |-> "contextDestroyed", arg |-> id]
  /\ UNCHANGED <<closedReason, browser, callbacks, lastid, transport, calls,
                 closeRequests, crashed, percyVars, gotoVars, frameId, lastContext,
                 evalSent>>

\* _handleExecutionContextDestroyed(event)
HandleExecutionContextDestroyed(id) ==
  /\ browser
  /\ NoSendSuspended
  /\ id <= lastContext
  /\ alive' = SelectSeq(alive, LAMBDA c : c.id # id)
  /\ contextId' = IF contextId = id THEN NoContext ELSE contextId
  /\ pageOp' = [op |-> "contextDestroyed", arg |-> id]
  /\ UNCHANGED <<closedReason, browser, callbacks, lastid, transport, calls,
                 closeRequests, crashed, percyVars, gotoVars, frameId, lastContext,
                 evalSent>>

\* _handleExecutionContextsCleared()
HandleExecutionContextsCleared ==
  /\ browser
  /\ NoSendSuspended
  /\ alive' = <<>>
  /\ contextId' = NoContext
  /\ pageOp' = [op |-> "contextsCleared", arg |-> 0]
  /\ UNCHANGED <<closedReason, browser, callbacks, lastid, transport, calls,
                 closeRequests, crashed, percyVars, gotoVars, frameId, lastContext,
                 evalSent>>

\* eval(fn) with a serializable function, up to the await in send(): the call
\* Runtime.callFunctionOn carries executionContextId: this.contextId
Eval ==
  /\ Len(calls) < MaxEvals
  /\ Send("Runtime.callFunctionOn")
  /\ evalSent' = IF closedReason # NoReason THEN evalSent ELSE evalSent \cup {contextId}
  /\ UNCHANGED <<gotoVars, frameId, contextId, alive, lastContext>>

\* one Page that receives context events and on which eval() is called
NextContext ==
  \/ \E frame \in Frames : HandleExecutionContextCreated(frame)
  \/ \E id \in 1..MaxContexts : HandleExecutionContextDestroyed(id)
  \/ HandleExecutionContextsCleared
  \/ Eval
  \/ \E c \in 1..MaxCalls : SendRegister(c) /\ UNCHANGED <<gotoVars, ctxVars>>
  \/ \E i \in 1..MaxCalls, e \in BOOLEAN : HandleMessage(i, e) /\ UNCHANGED <<gotoVars, ctxVars>>
  \/ HandleClose /\ UNCHANGED <<gotoVars, ctxVars>>
  \/ HandleTargetCrashed /\ UNCHANGED <<gotoVars, ctxVars>>

\* the contexts of the frame of the session that are alive, oldest first
AliveOfFrame == SelectSeq(alive, LAMBDA c : c.frame = frameId)

\* C22: a created-context event sets contextId to the id of the context when
\* its frame is the frame of the session and leaves it alone otherwise; a
\* destroyed-context event clears contextId when its id is the current one and
\* leaves it alone otherwise; a contexts-cleared event clears it; nothing else
\* changes it.  Hence contextId is null or the id of the alive context of the
\* frame that was created last.
C22_ContextIdFollowsEvents ==
  [][/\ CASE pageOp'.op = "contextCreated" ->
               contextId' = IF alive'[Len(alive')].frame = frameId
                              THEN pageOp'.arg ELSE contextId
          [] pageOp'.op = "contextDestroyed" ->
               contextId' = IF pageOp'.arg = contextId THEN NoContext ELSE contextId
          [] pageOp'.op = "contextsCleared" -> contextId' = NoContext
          [] OTHER -> contextId' = contextId
     /\ \/ contextId' = NoContext
        \/ /\ AliveOfFrame' # <<>>
           /\ contextId' = AliveOfFrame'[Len(AliveOfFrame')].id]_vars

\* two contexts of the frame were created and the older one destroyed: the
\* session still points at the younger one
C22_Witness ==
  /\ pageOp.op = "contextDestroyed"
  /\ contextId # NoContext /\ pageOp.arg < contextId
  /\ Len(alive) >= 1 /\ lastContext >= 2

\* C23: eval() never issues Runtime.callFunctionOn while contextId is null:
\* no call is sent with a null executionContextId.
C23_EvalNeedsContext ==
  NoContext \notin evalSent

\* ---------------------------------------------------------- Page: claims
\* C1: every call issued through send() is settled exactly once: never twice,
\* and once the session has closed no call whose send() has run to its end is
\* left unsettled.
C1_EverySendSettledOnce ==
  /\ \A c \in DOMAIN calls : Len(calls[c].settles) <= 1
  /\ (~browser /\ NoSendSuspended) =>
        \A c \in DOMAIN calls : Len(calls[c].settles) = 1

\* C2: _handleClose() rejects every call pending at that moment exactly once
\* with 'Protocol error (<method>): <reason>', the reason being the crash
\* message if a crash event preceded the close and the generic one otherwise,
\* and leaves no pending call behind.
C2_CloseRejectsEveryPending ==
  [][pageOp'.op = "close" =>
       /\ callbacks' = <<>>
       /\ \A i \in DOMAIN callbacks :
            calls'[callbacks[i].call].settles =
              <<ProtocolError(callbacks[i].method,
                              IF crashed THEN PageCrashed ELSE PageClosed)>>]_vars

\* two calls pending at a close that follows a crash were rejected by it
C2_Witness ==
  /\ pageOp.op = "close" /\ pageOp.arg >= 2 /\ crashed
  /\ \E c \in DOMAIN calls :
       calls[c].settles = <<ProtocolError(calls[c].method, PageCrashed)>>

\* C3: whenever closedReason is set the Pending Call map is empty.
C3_ClosedImpliesNoPending ==
  closedReason # NoReason => DOMAIN callbacks = {}

\* C4: a send() on a session whose closedReason is set is rejected at once with
\* that reason, writes nothing to the transport, registers no pending call and
\* is never settled again; closedReason, once set, is never null again.
C4_SendOnClosedFailsAtOnce ==
  [][/\ closedReason # NoReason => closedReason' # NoReason
     /\ (closedReason # NoReason /\ Len(calls') > Len(calls)) =>
          /\ calls'[Len(calls')].settles =
               <<ProtocolError(calls'[Len(calls')].method, closedReason)>>
          /\ calls'[Len(calls')].state = "settled"
          /\ transport' = transport /\ lastid' = lastid
          /\ callbacks' = callbacks
     /\ \A c \in DOMAIN calls :
          (calls[c].id = 0 \/ calls[c].settles # <<>>) =>
             /\ calls'[c].settles = calls[c].settles
             /\ calls[c].id = 0 => calls[c].settles[1].kind = "reject"]_vars

\* a send() issued after a crash was rejected with the crash reason while an
\* earlier call was still pending
C4_Witness ==
  /\ pageOp.op = "send"
  /\ calls[pageOp.arg].id = 0
  /\ calls[pageOp.arg].settles = <<ProtocolError(calls[pageOp.arg].method, PageCrashed)>>
  /\ DOMAIN callbacks # {}

\* ------------------------------------------------------------------ Queue
\* The queue (queue.js) is used through push, clear, stop, run, close, idle,
\* empty and concurrency.  A queue is [running, closed, queued, pending,
\* concurrency]: queued holds the keys of the tasks not yet started, in
\* dispatch order, pending the keys of the tasks that are running.
BuildKey == <<"build", "create">>
SnapshotKey(n) == <<"snapshot", n>>
UploadKey(n) == <<"upload", n>>
TaskKeys == {BuildKey} \cup {SnapshotKey(n) : n \in Names} \cup {UploadKey(n) : n \in Names}

Queued(q) == {q.queued[i] : i \in DOMAIN q.queued}

\* push(key, factory, priority): ignored by a closed queue, the existing task
\* is kept when the key is queued or running, a priority task goes first
QPush(q, key, first) ==
  IF q.closed \/ key \in Queued(q) \cup q.pending THEN q
  ELSE [q EXCEPT !.queued = IF first THEN <<key>> \o @ ELSE Append(@, key)]

\* clear(key): removes the task from the queued tasks, not from the running
QClear(q, key) ==
  [q EXCEPT !.queued = SelectSeq(@, LAMBDA k : k # key)]

\* stop() and run(): pause and resume the dispatch of queued tasks
QStop(q) == [q EXCEPT !.running = FALSE]
QRun(q) == [q EXCEPT !.running = TRUE]

\* close(force): no new task is accepted; with force the queued and the
\* running tasks are dropped
QClose(q, force) ==
  IF force THEN [q EXCEPT !.closed = TRUE, !.queued = <<>>, !.pending = {}]
           ELSE [q EXCEPT !.closed = TRUE]

\* the length of the list of queued and running tasks
QLength(q) == Len(q.queued) + Cardinality(q.pending)

\* a dispatcher without a concurrency ceiling
QCanTake_NoCeiling(q) ==
  q.running /\ q.queued # <<>>

\* the dispatcher may start the first queued task
QCanTake(q) ==
  q.running /\ q.queued # <<>> /\ Cardinality(q.pending) < q.concurrency

\* the first queued task starts
QTake(q) == [q EXCEPT !.queued = Tail(@), !.pending = @ \cup {Head(q.queued)}]

\* a running task has finished
QDone(q, key) == [q EXCEPT !.pending = @ \ {key}]

\* ------------------------------------------------------------------ Percy
NoBuild == [id |-> 0, failed |-> FALSE]

PercyConstructed ==
  /\ readyState = Unstarted
  /\ build = NoBuild
  /\ body = [k \in TaskKeys |-> "none"]
  /\ buildTask = "none"
  /\ startPc = "idle"
  /\ stopPc = "idle"
  /\ server = "created"
  /\ discovery = "created"
  /\ idlePc = "none"
  /\ counts = [pushes |-> 0, creates |-> 0, launches |-> 0, finalizes |-> 0,
               sent |-> 0, calls |-> 0]
  /\ percyOp = [op |-> "new", arg |-> "", res |-> ""]

\* new Percy({ deferUploads, skipUploads, discovery: { concurrency } })
PercyInit ==
  /\ PercyConstructed
  /\ skipUploads \in BOOLEAN
  /\ deferUploads \in {d \in BOOLEAN : skipUploads => d}
  /\ \E c \in 1..MaxConcurrency :
       snapshots = [running |-> TRUE, closed |-> FALSE, queued |-> <<>>,
                    pending |-> {}, concurrency |-> c]
  /\ \E c \in 1..MaxConcurrency :
       uploads = [running |-> ~deferUploads, closed |-> FALSE, queued |-> <<>>,
                  pending |-> {}, concurrency |-> c]

\* a Percy instance nobody uses
PercyIdle ==
  /\ PercyConstructed
  /\ skipUploads = FALSE /\ deferUploads = FALSE
  /\ snapshots = [running |-> TRUE, closed |-> FALSE, queued |-> <<>>,
                  pending |-> {}, concurrency |-> 1]
  /\ uploads = [running |-> TRUE, closed |-> FALSE, queued |-> <<>>,
                pending |-> {}, concurrency |-> 1]

\* a close() that forgets the upload queue
Close_SnapshotsOnly(s, u) == [snapshots |-> QClose(s, TRUE), uploads |-> u]

\* close(): both queues are force-closed
Close(s, u) == [snapshots |-> QClose(s, TRUE), uploads |-> QClose(u, TRUE)]

\* a start() that starts again once stopped
StartGuard_Restart == readyState \notin {Unstarted, Stopped}

\* start() returns at once: already starting or started
StartGuard == readyState # Unstarted

\* start() up to its first await
Start ==
  /\ IF StartGuard
       THEN /\ percyOp' = [op |-> "start", arg |-> "", res |-> "noop"]
            /\ UNCHANGED <<readyState, uploads, counts, startPc>>
       ELSE /\ readyState' = Starting
            /\ uploads' = QPush(uploads, BuildKey, TRUE)
            /\ counts' = [counts EXCEPT !.pushes = @ + 1]
            /\ startPc' = IF deferUploads THEN "launch" ELSE "awaitBuild"
            /\ percyOp' = [op |-> "start", arg |-> "", res |-> "started"]
  /\ UNCHANGED <<deferUploads, skipUploads, build, snapshots, body, buildTask,
                 stopPc, server, discovery, idlePc, pageVars, gotoVars, ctxVars>>

\* start(): `await buildTask` is over
StartBuildAwaited ==
  /\ startPc = "awaitBuild"
  /\ buildTask \in {"resolved", "rejected"}
  /\ startPc' = IF buildTask = "resolved" THEN "launch" ELSE "closeServer"
  /\ percyOp' = [op |-> "start", arg |-> "build", res |-> buildTask]
  /\ UNCHANGED <<readyState, deferUploads, skipUploads, build, uploads, snapshots,
                 body, buildTask, stopPc, server, discovery, counts, idlePc, pageVars, gotoVars, ctxVars>>

\* start(): browser.launch() is called
StartLaunch ==
  /\ startPc = "launch"
  /\ counts' = [counts EXCEPT !.launches = @ + 1]
  /\ startPc' = "launching"
  /\ percyOp' = [op |-> "start", arg |-> "launch", res |-> ""]
  /\ UNCHANGED <<readyState, deferUploads, skipUploads, build, uploads, snapshots,
                 body, buildTask, stopPc, server, discovery, idlePc, pageVars, gotoVars, ctxVars>>

\* start(): browser.launch() has settled and server.listen() is called
StartLaunched(ok) ==
  /\ startPc = "launching"
  /\ discovery' = IF ok THEN "launched" ELSE discovery
  /\ startPc' = IF ok THEN "listen" ELSE "closeServer"
  /\ percyOp' = [op |-> "start", arg |-> "launched", res |-> IF ok THEN "ok" ELSE "error"]
  /\ UNCHANGED <<readyState, deferUploads, skipUploads, build, uploads, snapshots,
                 body, buildTask, stopPc, server, counts, idlePc, pageVars, gotoVars, ctxVars>>

\* start(): server.listen() has settled; on success the instance is running
StartListened(ok) ==
  /\ startPc = "listen"
  /\ server' = IF ok THEN "listening" ELSE server
  /\ readyState' = IF ok THEN Running ELSE readyState
  /\ startPc' = IF ok THEN "done" ELSE "closeServer"
  /\ percyOp' = [op |-> "start", arg |-> "listened", res |-> IF ok THEN "ok" ELSE "error"]
  /\ UNCHANGED <<deferUploads, skipUploads, build, uploads, snapshots,
                 body, buildTask, stopPc, discovery, counts, idlePc, pageVars, gotoVars, ctxVars>>

\* start(), catch: the server is closed
StartCloseServer ==
  /\ startPc = "closeServer"
  /\ server' = "closed"
  /\ startPc' = "closeBrowser"
  /\ percyOp' = [op |-> "start", arg |-> "closeServer", res |-> ""]
  /\ UNCHANGED <<readyState, deferUploads, skipUploads, build, uploads, snapshots,
                 body, buildTask, stopPc, discovery, counts, idlePc, pageVars, gotoVars, ctxVars>>

\* start(), catch: the browser is closed, the instance is stopped and the
\* error is thrown
StartCloseBrowser ==
  /\ startPc = "closeBrowser"
  /\ discovery' = "closed"
  /\ readyState' = Stopped
  /\ startPc' = "threw"
  /\ percyOp' = [op |-> "start", arg |-> "closeBrowser", res |-> "threw"]
  /\ UNCHANGED <<deferUploads, skipUploads, build, uploads, snapshots,
                 body, buildTask, stopPc, server, counts, idlePc, pageVars, gotoVars, ctxVars>>

\* a stop() that tests `readyState == null` instead of `!readyState`
StopGuard_NullOnly == readyState = Unstarted \/ readyState > Stopping

\* stop(force) returns at once: not started or already stopped
StopGuard == readyState \in {Unstarted, Starting} \/ readyState > Stopping

\* a stop(force) that closes the queues before its first check
StopEarly_CloseFirst(force) ==
  /\ percyOp' = [op |-> "stop", arg |-> IF force THEN "force" ELSE "", res |-> "noop"]
  /\ snapshots' = IF force THEN Close(snapshots, uploads).snapshots ELSE snapshots
  /\ uploads' = IF force THEN Close(snapshots, uploads).uploads ELSE uploads
  /\ UNCHANGED <<readyState, stopPc>>

\* stop(force) that returned at once
StopEarly(force) ==
  /\ percyOp' = [op |-> "stop", arg |-> IF force THEN "force" ELSE "", res |-> "noop"]
  /\ UNCHANGED <<readyState, uploads, snapshots, stopPc>>

\* stop(): `!this.skipUploads && this.#uploads.run().close().length`
StopUploads(u) ==
  IF skipUploads THEN [uploads |-> u, pc |-> "closeServer"]
  ELSE LET closed == QClose(QRun(u), FALSE)
       IN [uploads |-> closed,
           pc |-> IF QLength(closed) # 0 THEN "drainUploads" ELSE "closeServer"]

\* stop(force) up to its first await
Stop(force) ==
  /\ IF StopGuard THEN StopEarly(force)
     ELSE LET q == IF force THEN Close(snapshots, uploads)
                   ELSE [snapshots |-> snapshots, uploads |-> uploads]
              closed == QClose(q.snapshots, FALSE)
              next == StopUploads(q.uploads)
          IN IF readyState = Stopping
               THEN /\ snapshots' = q.snapshots
                    /\ uploads' = q.uploads
                    /\ percyOp' = [op |-> "stop", arg |-> IF force THEN "force" ELSE "",
                                   res |-> "stopping"]
                    /\ UNCHANGED <<readyState, stopPc>>
               ELSE /\ readyState' = Stopping
                    /\ snapshots' = closed
                    /\ IF QLength(closed) # 0
                         THEN uploads' = q.uploads /\ stopPc' = "drainSnapshots"
                         ELSE uploads' = next.uploads /\ stopPc' = next.pc
                    /\ percyOp' = [op |-> "stop", arg |-> IF force THEN "force" ELSE "",
                                   res |-> "stopped"]
  /\ UNCHANGED <<deferUploads, skipUploads, build, body, buildTask, startPc,
                 server, discovery, counts, idlePc, pageVars, gotoVars, ctxVars>>

\* a stop() that does not wait for the snapshot queue to empty
StopSnapshotsEmpty_NoWait ==
  /\ stopPc = "drainSnapshots"
  /\ uploads' = StopUploads(uploads).uploads
  /\ stopPc' = StopUploads(uploads).pc
  /\ percyOp' = [op |-> "stop", arg |-> "snapshots", res |-> "empty"]
  /\ UNCHANGED <<readyState, deferUploads, skipUploads, build, snapshots, body,
                 buildTask, startPc, server, discovery, counts, idlePc, pageVars, gotoVars, ctxVars>>

\* stop(): the snapshot queue is empty; the upload queue is run and closed
StopSnapshotsEmpty ==
  /\ stopPc = "drainSnapshots"
  /\ QLength(snapshots) = 0
  /\ uploads' = StopUploads(uploads).uploads
  /\ stopPc' = StopUploads(uploads).pc
  /\ percyOp' = [op |-> "stop", arg |-> "snapshots", res |-> "empty"]
  /\ UNCHANGED <<readyState, deferUploads, skipUploads, build, snapshots, body,
                 buildTask, startPc, server, discovery, counts, idlePc, pageVars, gotoVars, ctxVars>>

\* stop(): the upload queue is empty
StopUploadsEmpty ==
  /\ stopPc = "drainUploads"
  /\ QLength(uploads) = 0
  /\ stopPc' = "closeServer"
  /\ percyOp' = [op |-> "stop", arg |-> "uploads", res |-> "empty"]
  /\ UNCHANGED <<readyState, deferUploads, skipUploads, build, uploads, snapshots,
                 body, buildTask, startPc, server, discovery, counts, idlePc, pageVars, gotoVars, ctxVars>>

\* stop(): the server is closed
StopCloseServer ==
  /\ stopPc = "closeServer"
  /\ server' = "closed"
  /\ stopPc' = "closeBrowser"
  /\ percyOp' = [op |-> "stop", arg |-> "closeServer", res |-> ""]
  /\ UNCHANGED <<readyState, deferUploads, skipUploads, build, uploads, snapshots,
                 body, buildTask, startPc, discovery, counts, idlePc, pageVars, gotoVars, ctxVars>>

\* a stop() that finalizes every build that exists, failed or not
StopCloseBrowser_FinalizeFailed ==
  /\ stopPc = "closeBrowser"
  /\ discovery' = "closed"
  /\ IF build.id # 0
       THEN /\ counts' = [counts EXCEPT !.finalizes = @ + 1]
            /\ stopPc' = "finalize"
            /\ UNCHANGED readyState
       ELSE /\ readyState' = Stopped
            /\ stopPc' = "done"
            /\ UNCHANGED counts
  /\ percyOp' = [op |-> "stop", arg |-> "closeBrowser", res |-> ""]
  /\ UNCHANGED <<deferUploads, skipUploads, build, uploads, snapshots, body,
                 buildTask, startPc, server, idlePc, pageVars, gotoVars, ctxVars>>

\* stop(): the browser is closed; a build that exists and has not failed is
\* finalized, otherwise the instance is stopped
StopCloseBrowser ==
  /\ stopPc = "closeBrowser"
  /\ discovery' = "closed"
  /\ IF build.id # 0 /\ ~build.failed
       THEN /\ counts' = [counts EXCEPT !.finalizes = @ + 1]
            /\ stopPc' = "finalize"
            /\ UNCHANGED readyState
       ELSE /\ readyState' = Stopped
            /\ stopPc' = "done"
            /\ UNCHANGED counts
  /\ percyOp' = [op |-> "stop", arg |-> "closeBrowser", res |-> ""]
  /\ UNCHANGED <<deferUploads, skipUploads, build, uploads, snapshots, body,
                 buildTask, startPc, server, idlePc, pageVars, gotoVars, ctxVars>>

\* stop(): finalizeBuild() has settled; its failure is thrown by stop()
StopFinalized(ok) ==
  /\ stopPc = "finalize"
  /\ readyState' = IF ok THEN Stopped ELSE readyState
  /\ stopPc' = IF ok THEN "done" ELSE "threw"
  /\ percyOp' = [op |-> "stop", arg |-> "finalized", res |-> IF ok THEN "ok" ELSE "threw"]
  /\ UNCHANGED <<deferUploads, skipUploads, build, uploads, snapshots, body,
                 buildTask, startPc, server, discovery, counts, idlePc, pageVars, gotoVars, ctxVars>>

\* a snapshot() that is still accepted while stopping
SnapshotGuard_Stopping == readyState \notin {Running, Stopping}

\* snapshot(options) throws 'Not running'
SnapshotGuard == readyState # Running

\* a snapshot() that leaves the queued upload of the name in place
Snapshot_NoClear(n) ==
  /\ IF SnapshotGuard
       THEN /\ percyOp' = [op |-> "snapshot", arg |-> n, res |-> "Not running"]
            /\ UNCHANGED <<uploads, snapshots, counts>>
       ELSE /\ counts.calls < MaxSnapshotCalls
            /\ uploads' = uploads
            /\ snapshots' = QPush(snapshots, SnapshotKey(n), FALSE)
            /\ counts' = [counts EXCEPT !.calls = @ + 1]
            /\ percyOp' = [op |-> "snapshot", arg |-> n, res |-> "ok"]
  /\ UNCHANGED <<readyState, deferUploads, skipUploads, build, body, buildTask,
                 startPc, stopPc, server, discovery, idlePc, pageVars, gotoVars, ctxVars>>

\* snapshot({ name }): the queued upload of the name is cleared and the capture
\* task is pushed
Snapshot(n) ==
  /\ IF SnapshotGuard
       THEN /\ percyOp' = [op |-> "snapshot", arg |-> n, res |-> "Not running"]
            /\ UNCHANGED <<uploads, snapshots, counts>>
       ELSE /\ counts.calls < MaxSnapshotCalls
            /\ uploads' = QClear(uploads, UploadKey(n))
            /\ snapshots' = QPush(snapshots, SnapshotKey(n), FALSE)
            /\ counts' = [counts EXCEPT !.calls = @ + 1]
            /\ percyOp' = [op |-> "snapshot", arg |-> n, res |-> "ok"]
  /\ UNCHANGED <<readyState, deferUploads, skipUploads, build, body, buildTask,
                 startPc, stopPc, server, discovery, idlePc, pageVars, gotoVars, ctxVars>>

\* the snapshot queue starts its first queued task: the capture task opens a
\* browser page
DequeueSnapshot ==
  /\ QCanTake(snapshots)
  /\ body[Head(snapshots.queued)] = "none"
  /\ snapshots' = QTake(snapshots)
  /\ body' = [body EXCEPT ![Head(snapshots.queued)] = "open"]
  /\ percyOp' = [op |-> "capture", arg |-> Head(snapshots.queued)[2], res |-> "open"]
  /\ UNCHANGED <<readyState, deferUploads, skipUploads, build, uploads, buildTask,
                 startPc, stopPc, server, discovery, counts, idlePc, pageVars, gotoVars, ctxVars>>

\* capture task: browser.page() has settled; a failure is logged and the task
\* ends without a page to close
CaptureOpened(n, ok) ==
  /\ body[SnapshotKey(n)] = "open"
  /\ body' = [body EXCEPT ![SnapshotKey(n)] = IF ok THEN "capture" ELSE "none"]
  /\ snapshots' = IF ok THEN snapshots ELSE QDone(snapshots, SnapshotKey(n))
  /\ percyOp' = [op |-> "capture", arg |-> n, res |-> IF ok THEN "page" ELSE "error"]
  /\ UNCHANGED <<readyState, deferUploads, skipUploads, build, uploads, buildTask,
                 startPc, stopPc, server, discovery, counts, idlePc, pageVars, gotoVars, ctxVars>>

\* _scheduleUpload(name, conf, resources)
ScheduleUpload(u, n) == QPush(u, UploadKey(n), FALSE)

\* a capture task that ends on a failure without closing its page
CaptureTaken_NoClose(n, ok) ==
  /\ body[SnapshotKey(n)] = "capture"
  /\ uploads' = IF ok THEN ScheduleUpload(uploads, n) ELSE uploads
  /\ body' = [body EXCEPT ![SnapshotKey(n)] = IF ok THEN "closing" ELSE "none"]
  /\ snapshots' = IF ok THEN snapshots ELSE QDone(snapshots, SnapshotKey(n))
  /\ percyOp' = [op |-> "capture", arg |-> n, res |-> IF ok THEN "taken" ELSE "error"]
  /\ UNCHANGED <<readyState, deferUploads, skipUploads, build, buildTask,
                 startPc, stopPc, server, discovery, counts, idlePc, pageVars, gotoVars, ctxVars>>

\* capture task: resize, goto and snapshot have settled; on success the upload
\* is scheduled, a failure is logged; then the page is asked to close
CaptureTaken(n, ok) ==
  /\ body[SnapshotKey(n)] = "capture"
  /\ uploads' = IF ok THEN ScheduleUpload(uploads, n) ELSE uploads
  /\ body' = [body EXCEPT ![SnapshotKey(n)] = "closing"]
  /\ percyOp' = [op |-> "capture", arg |-> n, res |-> IF ok THEN "taken" ELSE "error"]
  /\ UNCHANGED snapshots
  /\ UNCHANGED <<readyState, deferUploads, skipUploads, build, buildTask,
                 startPc, stopPc, server, discovery, counts, idlePc, pageVars, gotoVars, ctxVars>>

\* capture task: page.close() has settled and the task ends
CaptureClosed(n) ==
  /\ body[SnapshotKey(n)] = "closing"
  /\ body' = [body EXCEPT ![SnapshotKey(n)] = "none"]
  /\ snapshots' = QDone(snapshots, SnapshotKey(n))
  /\ percyOp' = [op |-> "capture", arg |-> n, res |-> "closed"]
  /\ UNCHANGED <<readyState, deferUploads, skipUploads, build, uploads, buildTask,
                 startPc, stopPc, server, discovery, counts, idlePc, pageVars, gotoVars, ctxVars>>

\* a 'build/create' task that does not pause the upload queue
DequeueBuild_NoPause ==
  /\ QCanTake(uploads)
  /\ Head(uploads.queued) = BuildKey
  /\ uploads' = QTake(uploads)
  /\ counts' = [counts EXCEPT !.creates = @ + 1]
  /\ body' = [body EXCEPT ![BuildKey] = "creating"]
  /\ buildTask' = "pending"
  /\ percyOp' = [op |-> "build", arg |-> "", res |-> "start"]
  /\ UNCHANGED <<readyState, deferUploads, skipUploads, build, snapshots,
                 startPc, stopPc, server, discovery, idlePc, pageVars, gotoVars, ctxVars>>

\* the upload queue starts the 'build/create' task, which pauses the queue
\* and calls createBuild()
DequeueBuild ==
  /\ QCanTake(uploads)
  /\ Head(uploads.queued) = BuildKey
  /\ uploads' = QStop(QTake(uploads))
  /\ counts' = [counts EXCEPT !.creates = @ + 1]
  /\ body' = [body EXCEPT ![BuildKey] = "creating"]
  /\ buildTask' = "pending"
  /\ percyOp' = [op |-> "build", arg |-> "", res |-> "start"]
  /\ UNCHANGED <<readyState, deferUploads, skipUploads, build, snapshots,
                 startPc, stopPc, server, discovery, idlePc, pageVars, gotoVars, ctxVars>>

\* the upload queue starts an upload task, which calls
\* sendSnapshot(this.build.id, ..); without a build that throws inside the try
DequeueUpload ==
  /\ QCanTake(uploads)
  /\ Head(uploads.queued) # BuildKey
  /\ body[Head(uploads.queued)] = "none"
  /\ uploads' = QTake(uploads)
  /\ counts' = IF build.id # 0 THEN [counts EXCEPT !.sent = @ + 1] ELSE counts
  /\ body' = [body EXCEPT ![Head(uploads.queued)] =
                            IF build.id # 0 THEN "sending" ELSE "failing"]
  /\ percyOp' = [op |-> "upload", arg |-> Head(uploads.queued)[2], res |-> "start"]
  /\ UNCHANGED <<readyState, deferUploads, skipUploads, build, snapshots, buildTask,
                 startPc, stopPc, server, discovery, idlePc, pageVars, gotoVars, ctxVars>>

\* a 'build/create' task whose deferred failure is only logged
CreateBuildSettled_NoClose(ok) ==
  /\ body[BuildKey] = "creating"
  /\ body' = [body EXCEPT ![BuildKey] = "none"]
  /\ buildTask' = IF ok THEN "resolved" ELSE "rejected"
  /\ build' = IF ok THEN [id |-> 1, failed |-> FALSE] ELSE build
  /\ LET done == QDone(uploads, BuildKey)
     IN IF ok THEN uploads' = QRun(done) /\ UNCHANGED snapshots
        ELSE uploads' = done /\ UNCHANGED snapshots
  /\ percyOp' = [op |-> "build", arg |-> "", res |-> IF ok THEN "created" ELSE "error"]
  /\ UNCHANGED <<readyState, deferUploads, skipUploads, startPc, stopPc, server,
                 discovery, counts, idlePc, pageVars, gotoVars, ctxVars>>

\* 'build/create' task: createBuild() has settled.  On success the build is
\* stored and the upload queue resumed; on failure the task rejects, which
\* closes the instance when uploads are deferred.
CreateBuildSettled(ok) ==
  /\ body[BuildKey] = "creating"
  /\ body' = [body EXCEPT ![BuildKey] = "none"]
  /\ buildTask' = IF ok THEN "resolved" ELSE "rejected"
  /\ build' = IF ok THEN [id |-> 1, failed |-> FALSE] ELSE build
  /\ LET done == QDone(uploads, BuildKey)
     IN IF ok THEN uploads' = QRun(done) /\ UNCHANGED snapshots
        ELSE IF deferUploads
               THEN /\ uploads' = Close(snapshots, done).uploads
                    /\ snapshots' = Close(snapshots, done).snapshots
               ELSE uploads' = done /\ UNCHANGED snapshots
  /\ percyOp' = [op |-> "build", arg |-> "", res |-> IF ok THEN "created" ELSE "error"]
  /\ UNCHANGED <<readyState, deferUploads, skipUploads, startPc, stopPc, server,
                 discovery, counts, idlePc, pageVars, gotoVars, ctxVars>>

\* the results of sendSnapshot(): sent, any error, or the 422 whose error
\* points at the build
UploadResults == {"ok", "error", "build"}

\* an upload task that marks the build failed without closing the queues
UploadSettled_NoClose(n, result) ==
  /\ \/ body[UploadKey(n)] = "sending"
     \/ body[UploadKey(n)] = "failing" /\ result = "error"
  /\ body' = [body EXCEPT ![UploadKey(n)] = "none"]
  /\ build' = IF result = "build" THEN [build EXCEPT !.failed = TRUE] ELSE build
  /\ uploads' = QDone(uploads, UploadKey(n))
  /\ UNCHANGED snapshots
  /\ percyOp' = [op |-> "upload", arg |-> n, res |-> result]
  /\ UNCHANGED <<readyState, deferUploads, skipUploads, buildTask, startPc, stopPc,
                 server, discovery, counts, idlePc, pageVars, gotoVars, ctxVars>>

\* an upload task for which every error of sendSnapshot() fails the build
UploadSettled_AnyErrorFails(n, result) ==
  /\ \/ body[UploadKey(n)] = "sending"
     \/ body[UploadKey(n)] = "failing" /\ result = "error"
  /\ body' = [body EXCEPT ![UploadKey(n)] = "none"]
  /\ LET done == QDone(uploads, UploadKey(n))
     IN IF result # "ok"
          THEN /\ build' = [build EXCEPT !.failed = TRUE]
               /\ uploads' = Close(snapshots, done).uploads
               /\ snapshots' = Close(snapshots, done).snapshots
          ELSE /\ uploads' = done
               /\ UNCHANGED <<build, snapshots>>
  /\ percyOp' = [op |-> "upload", arg |-> n, res |-> result]
  /\ UNCHANGED <<readyState, deferUploads, skipUploads, buildTask, startPc, stopPc,
                 server, discovery, counts, idlePc, pageVars, gotoVars, ctxVars>>

\* upload task: sendSnapshot() has settled.  Errors are logged; the 422 of the
\* build marks the build failed and closes both queues.
UploadSettled(n, result) ==
  /\ \/ body[UploadKey(n)] = "sending"
     \/ body[UploadKey(n)] = "failing" /\ result = "error"
  /\ body' = [body EXCEPT ![UploadKey(n)] = "none"]
  /\ LET done == QDone(uploads, UploadKey(n))
     IN IF result = "build"
          THEN /\ build' = [build EXCEPT !.failed = TRUE]
               /\ uploads' = Close(snapshots, done).uploads
               /\ snapshots' = Close(snapshots, done).snapshots
          ELSE /\ uploads' = done
               /\ UNCHANGED <<build, snapshots>>
  /\ percyOp' = [op |-> "upload", arg |-> n, res |-> result]
  /\ UNCHANGED <<readyState, deferUploads, skipUploads, buildTask, startPc, stopPc,
                 server, discovery, counts, idlePc, pageVars, gotoVars, ctxVars>>

\* idle(): the call starts to wait for the snapshot queue
Idle ==
  /\ idlePc = "none"
  /\ idlePc' = "snapshots"
  /\ percyOp' = [op |-> "idle", arg |-> "", res |-> "waiting"]
  /\ UNCHANGED <<readyState, deferUploads, skipUploads, build, uploads, snapshots, body,
                 buildTask, startPc, stopPc, server, discovery, counts, pageVars, gotoVars, ctxVars>>

\* idle(): snapshots.idle() has resolved, the call waits for the upload queue
IdleSnapshots ==
  /\ idlePc = "snapshots"
  /\ QLength(snapshots) = 0
  /\ idlePc' = "uploads"
  /\ percyOp' = [op |-> "idle", arg |-> "snapshots", res |-> "waiting"]
  /\ UNCHANGED <<readyState, deferUploads, skipUploads, build, uploads, snapshots, body,
                 buildTask, startPc, stopPc, server, discovery, counts, pageVars, gotoVars, ctxVars>>

\* idle(): uploads.idle() has resolved, and so does the call
IdleUploads ==
  /\ idlePc = "uploads"
  /\ QLength(uploads) = 0
  /\ idlePc' = "resolved"
  /\ percyOp' = [op |-> "idle", arg |-> "uploads", res |-> "resolved"]
  /\ UNCHANGED <<readyState, deferUploads, skipUploads, build, uploads, snapshots, body,
                 buildTask, startPc, stopPc, server, discovery, counts, pageVars, gotoVars, ctxVars>>

NextPercy ==
  \/ Start
  \/ StartBuildAwaited
  \/ StartLaunch
  \/ \E ok \in BOOLEAN : StartLaunched(ok)
  \/ \E ok \in BOOLEAN : StartListened(ok)
  \/ StartCloseServer
  \/ StartCloseBrowser
  \/ \E force \in BOOLEAN : Stop(force)
  \/ StopSnapshotsEmpty
  \/ StopUploadsEmpty
  \/ StopCloseServer
  \/ StopCloseBrowser
  \/ \E ok \in BOOLEAN : StopFinalized(ok)
  \/ \E n \in Names : Snapshot(n)
  \/ DequeueSnapshot
  \/ \E n \in Names, ok \in BOOLEAN : CaptureOpened(n, ok)
  \/ \E n \in Names, ok \in BOOLEAN : CaptureTaken(n, ok)
  \/ \E n \in Names : CaptureClosed(n)
  \/ DequeueBuild
  \/ DequeueUpload
  \/ \E ok \in BOOLEAN : CreateBuildSettled(ok)
  \/ \E n \in Names, r \in UploadResults : UploadSettled(n, r)

\* the orchestrator with a caller of idle()
NextIdle ==
  \/ NextPercy
  \/ Idle
  \/ IdleSnapshots
  \/ IdleUploads

\* --------------------------------------------------------- Percy: claims
\* what start(), stop() and snapshot() act on, the record of the call aside
percyState == <<readyState, deferUploads, skipUploads, build, uploads, snapshots,
                body, buildTask, startPc, stopPc, server, discovery, counts>>

\* the step is a call of start(), stop(force) or snapshot(name)
StartCalled == percyOp'.op = "start" /\ percyOp'.arg = ""
StopCalled == percyOp'.op = "stop" /\ percyOp'.arg \in {"", "force"}
SnapshotCalled == percyOp'.op = "snapshot"

\* C5: the readiness state only moves forward, unstarted -> starting ->
\* running -> stopping -> stopped; no state is entered again once left.
C5_ReadinessOnlyAdvances ==
  [][readyState' >= readyState]_vars

\* a start() after a complete start and stop found the instance stopped
C5_Witness ==
  /\ readyState = Stopped /\ startPc = "done" /\ stopPc = "done"
  /\ percyOp = [op |-> "start", arg |-> "", res |-> "noop"]

\* C6: start() does nothing unless the state is unstarted: the 'build/create'
\* task is pushed at most once, the build is created at most once and the
\* browser is launched at most once.
C6_StartHasNoDoubleEffect ==
  [][/\ counts'.pushes <= 1 /\ counts'.creates <= 1 /\ counts'.launches <= 1
     /\ (StartCalled /\ readyState # Unstarted) => UNCHANGED percyState]_vars

\* a second start() on a running instance, after one build and one launch
C6_Witness ==
  /\ percyOp = [op |-> "start", arg |-> "", res |-> "noop"]
  /\ readyState = Running
  /\ counts.pushes = 1 /\ counts.creates = 1 /\ counts.launches = 1

\* C7: stop(force?) on an instance never started or already stopped changes
\* nothing: readiness, queues, build, server, browser and the finalize count.
C7_StopOutsideLifetimeIsNoop ==
  [][(StopCalled /\ readyState \in {Unstarted, Stopped}) => UNCHANGED percyState]_vars

\* a forced stop() on an instance stopped by a failed start, whose queues were
\* never closed
C7_Witness ==
  /\ percyOp = [op |-> "stop", arg |-> "force", res |-> "noop"]
  /\ readyState = Stopped
  /\ ~snapshots.closed /\ ~uploads.closed

\* C8: snapshot() in a state other than running fails with 'Not running' and
\* has no effect: no queued upload is cleared, no capture task is pushed.
C8_SnapshotWhenNotRunningFails ==
  [][(SnapshotCalled /\ readyState # Running) =>
        /\ percyOp'.res = "Not running"
        /\ UNCHANGED percyState]_vars

\* a snapshot() for a name refused while stopping, the upload of that name
\* still queued
C8_Witness ==
  /\ percyOp.op = "snapshot" /\ percyOp.res = "Not running"
  /\ readyState = Stopping
  /\ UploadKey(percyOp.arg) \in Queued(uploads)

\* a queue force-closed and used by nobody since: it accepts no task and has
\* none queued or running
ForceClosed(q) == q.closed /\ q.queued = <<>> /\ q.pending = {}

\* C9: while build.failed is set both queues are force-closed, and build.failed
\* once set stays set.
C9_FailedBuildClosesQueues ==
  [][/\ build.failed => build'.failed
     /\ build'.failed => ForceClosed(snapshots') /\ ForceClosed(uploads')]_vars

\* a failed build at the end of stop(), not finalized
C9_Witness ==
  /\ build.failed /\ readyState = Stopped
  /\ ForceClosed(snapshots) /\ ForceClosed(uploads)
  /\ counts.finalizes = 0

\* C10: after an upload was answered with the 422 of the build, the build stays
\* failed, a snapshot() on the running instance does not fail and no further
\* snapshot is sent.
C10_NoUploadAfterBuildFailure ==
  [][build.failed =>
       /\ build'.failed
       /\ counts'.sent = counts.sent
       /\ (SnapshotCalled /\ readyState = Running) => percyOp'.res = "ok"]_vars

\* a snapshot() accepted on a running instance whose build has failed while a
\* capture was still running
C10_Witness ==
  /\ build.failed /\ readyState = Running
  /\ percyOp.op = "snapshot" /\ percyOp.res = "ok"
  /\ \E n \in Names : body[SnapshotKey(n)] # "none"

\* an upload task starts in this step
UploadStarts(n) == body[UploadKey(n)] = "none" /\ body'[UploadKey(n)] # "none"

\* C11: no snapshot is sent before the build exists: sendSnapshot() is called
\* only with a stored build id, and no upload task starts while the build is
\* missing, whatever the deferral, the concurrency and the order of queueing.
C11_NoUploadBeforeBuild ==
  [][/\ counts'.sent > counts.sent => build.id # 0
     /\ \A n \in Names : UploadStarts(n) => build.id # 0]_vars

\* deferred uploads, two upload slots: an upload queued before the
\* 'build/create' task ran has been sent
C11_Witness ==
  /\ deferUploads /\ uploads.concurrency >= 2
  /\ counts.sent >= 1 /\ build.id # 0
  /\ \E n \in Names : body[UploadKey(n)] = "sending"

\* stop() is past the drain of the snapshot queue, of the upload queue
StopPastSnapshots ==
  stopPc \in {"drainUploads", "closeServer", "closeBrowser", "finalize", "done", "threw"}
StopPastUploads ==
  stopPc \in {"closeServer", "closeBrowser", "finalize", "done", "threw"}

\* C12 as claimed: stop() runs and closes the upload queue only once the
\* snapshot queue is closed and empty, and tears server and browser down only
\* after both queues have drained.
C12_TeardownAfterBothDrains ==
  /\ StopPastSnapshots => snapshots.closed /\ QLength(snapshots) = 0
  /\ StopPastUploads => QLength(uploads) = 0

\* C12 as amended: the same, the upload queue being drained unless uploads are
\* skipped.
C12_DrainOrder ==
  /\ StopPastSnapshots => snapshots.closed /\ QLength(snapshots) = 0
  /\ (StopPastUploads /\ ~skipUploads) => uploads.closed /\ QLength(uploads) = 0

\* stop() waits for the uploads of two snapshots after the snapshot queue has
\* drained
C12_Witness ==
  /\ stopPc = "drainUploads"
  /\ QLength(snapshots) = 0 /\ QLength(uploads) >= 2
  /\ server = "listening"

\* C13: stop() finalizes the build exactly when it exists and has not failed at
\* that moment; finalizeBuild() is called at most once in the lifetime.
C13_FinalizeOnlyLiveBuildOnce ==
  [][/\ counts'.finalizes <= 1
     /\ counts'.finalizes > counts.finalizes => build.id # 0 /\ ~build.failed
     /\ (stopPc = "closeBrowser" /\ stopPc' # "closeBrowser") =>
          (counts'.finalizes = counts.finalizes + 1) = (build.id # 0 /\ ~build.failed)]_vars

\* a stop() that ended without finalizing the failed build, and a second stop()
C13_Witness ==
  /\ readyState = Stopped /\ stopPc = "done"
  /\ build.failed /\ counts.finalizes = 0
  /\ percyOp.op = "stop" /\ percyOp.res = "noop"

\* C15: only a startup failure rejects a caller-visible promise: a call that
\* ends by throwing is a start() call, and stop() in particular never rejects,
\* not even when the remote finalization of the build fails.
C15_OnlyStartupFailuresReject ==
  [][percyOp'.res = "threw" => percyOp'.op = "start" /\ stopPc' # "threw"]_vars

\* a capture or an upload task body fails in this step on an error that is
\* not the build's validation failure
TaskFails == percyOp'.op \in {"capture", "upload"} /\ percyOp'.res = "error"
FailedKey == <<IF percyOp'.op = "capture" THEN "snapshot" ELSE "upload", percyOp'.arg>>

\* C16: a failure inside a capture or upload task body, other than the build's
\* validation failure, is swallowed at the task: the build record is unchanged,
\* neither queue is closed or paused, the failed task is not queued again, the
\* other queued tasks stay queued, and the task goes on to its end.
C16_TaskFailureSwallowed ==
  [][TaskFails =>
       /\ build' = build
       /\ snapshots'.closed = snapshots.closed /\ uploads'.closed = uploads.closed
       /\ snapshots'.running = snapshots.running /\ uploads'.running = uploads.running
       /\ snapshots'.queued = snapshots.queued /\ uploads'.queued = uploads.queued
       /\ snapshots'.pending \ {FailedKey} = snapshots.pending \ {FailedKey}
       /\ uploads'.pending \ {FailedKey} = uploads.pending \ {FailedKey}
       /\ body'[FailedKey] \in {"none", "closing"}
       /\ \A k \in TaskKeys \ {FailedKey} : body'[k] = body[k]]_vars

\* an upload has failed on an ordinary error while another upload is queued
\* and the queues are open
C16_Witness ==
  /\ percyOp.op = "upload" /\ percyOp.res = "error"
  /\ ~build.failed /\ ~uploads.closed /\ ~snapshots.closed
  /\ Len(uploads.queued) >= 1 /\ uploads.running

\* C17: a page opened by a capture task is asked to close before the task
\* completes, on every exit path: a task with an open page only ends through
\* the close of that page.
C17_PageClosedBeforeTaskEnds ==
  [][\A n \in Names :
       /\ body[SnapshotKey(n)] = "capture" => body'[SnapshotKey(n)] \in {"capture", "closing"}
       /\ (body[SnapshotKey(n)] # "none" /\ body'[SnapshotKey(n)] = "none") =>
            body[SnapshotKey(n)] \in {"open", "closing"}]_vars

\* a capture that failed after its page was opened is closing the page
C17_Witness ==
  /\ percyOp.op = "capture" /\ percyOp.res = "error"
  /\ body[SnapshotKey(percyOp.arg)] = "closing"

\* the capture tasks that are running
RunningCaptures == {n \in Names : body[SnapshotKey(n)] # "none"}

\* C18: the number of capture tasks running at once never exceeds the
\* concurrency of the snapshot queue; with concurrency 1 the capture of one
\* snapshot ends, upload scheduled and page closed, before the next begins.
C18_CaptureConcurrencyCeiling ==
  Cardinality(RunningCaptures) <= snapshots.concurrency

\* concurrency 1: 'a' is closing its page with its upload scheduled while 'b'
\* waits in the queue
C18_Witness ==
  /\ snapshots.concurrency = 1
  /\ body[SnapshotKey("a")] = "closing"
  /\ UploadKey("a") \in Queued(uploads) \cup uploads.pending
  /\ SnapshotKey("b") \in Queued(snapshots) /\ body[SnapshotKey("b")] = "none"

C20_IdleResolvesWhenBothIdle ==
  [][(idlePc # "resolved" /\ idlePc' = "resolved") =>
       QLength(snapshots') = 0 /\ QLength(uploads') = 0]_vars

\* createBuild() fails in this step
BuildFails == percyOp'.op = "build" /\ percyOp'.res = "error"

\* C21: with deferred uploads a failed build creation does not fail start():
\* start() never waits for the build and enters its catch only from the launch
\* or the listen; the failure force-closes both queues and stores no build, and
\* after it nothing is finalized.
C21_DeferredBuildFailure ==
  [][deferUploads =>
       /\ startPc' # "awaitBuild"
       /\ (startPc # "closeServer" /\ startPc' = "closeServer") =>
            startPc \in {"launching", "listen"}
       /\ BuildFails =>
            /\ ForceClosed(snapshots') /\ ForceClosed(uploads')
            /\ build' = NoBuild
            /\ startPc' = startPc /\ readyState' = readyState
       /\ buildTask = "rejected" =>
            build' = NoBuild /\ counts'.finalizes = 0]_vars

\* deferred uploads: the build creation run by stop() has failed, start() had
\* resolved, and stop() has ended without a finalization
C21_Witness ==
  /\ deferUploads /\ ~skipUploads
  /\ buildTask = "rejected" /\ startPc = "done"
  /\ readyState = Stopped /\ stopPc = "done"
  /\ counts.finalizes = 0 /\ counts.calls >= 1

\* the stop() call that passed its guards has returned or thrown
StopEnded == stopPc \in {"done", "threw"}

\* C24: a stop() that passed its guards ends with the readiness state
\* stopped, also when the remote finalization fails and when it is forced: the
\* instance is not left in state stopping.
C24_StopEndsStopped ==
  StopEnded => readyState = Stopped

\* C25: a stop(force?) called while the instance is starting has no effect,
\* forced or not: no queue is closed, the state is unchanged, start() is where
\* it was, and a start() whose launch and listen succeed makes the instance
\* running.
C25_StopWhileStartingIsNoop ==
  [][/\ (StopCalled /\ readyState = Starting) =>
          percyOp'.res = "noop" /\ UNCHANGED percyState
     /\ percyOp' = [op |-> "start", arg |-> "listened", res |-> "ok"] =>
          readyState = Starting /\ readyState' = Running]_vars

\* a forced stop() arrived while start() waits for the browser to launch, and
\* the queues are open
C25_Witness ==
  /\ percyOp = [op |-> "stop", arg |-> "force", res |-> "noop"]
  /\ readyState = Starting /\ startPc = "launching"
  /\ ~snapshots.closed /\ ~uploads.closed

\* --------------------------------------------------------- specifications
\* one Page in use, next to a Percy instance nobody uses
InitPage == PageInit /\ PercyIdle /\ GotoIdle /\ CtxIdle

SpecPage == InitPage /\ [][NextPage]_vars

\* one Percy instance in use, next to a Page nobody uses
InitPercy == PercyInit /\ PageInit /\ GotoIdle /\ CtxIdle

SpecPercy == InitPercy /\ [][NextPercy]_vars

\* the same instance with one caller of idle()
SpecIdle == InitPercy /\ [][NextIdle]_vars

\* one Page whose browser has cookies or not, and one call of goto()
InitGoto ==
  /\ PageInit /\ PercyIdle /\ CtxIdle
  /\ gotoPc = "none"
  /\ nav = [pc |-> "none", call |-> 0]
  /\ waitPc = "none"
  /\ handlers = [e \in Events |-> [on |-> FALSE, finished |-> FALSE]]
  /\ cookies \in BOOLEAN

SpecGoto == InitGoto /\ [][NextGoto]_vars

\* one Page, initialised (frameId set) or not yet, that receives context
\* events and whose eval() is called
InitContext ==
  /\ PageInit /\ PercyIdle /\ GotoIdle
  /\ frameId \in {NoFrame, "main"}
  /\ contextId = NoContext
  /\ alive = <<>>
  /\ lastContext = 0
  /\ evalSent = {}

SpecContext == InitContext /\ [][NextContext]_vars

=============================================================================
